---- MODULE Spec2Model ----
(***************************************************************************)
(* Model-based diffusion planner: the simple reward-weighted variant       *)
(* (mbd/planners/mbd_planner.py, run_diffusion) and the Gaussian-mixture   *)
(* variant (sampling/mc_brax_gmm.py, a module-level script).               *)
(*                                                                         *)
(* Numbers are extended rationals <<n, d>> in lowest terms with d >= 0:    *)
(* d > 0 is the rational n/d, <<0,0>> is NaN, <<1,0>> and <<-1,0>> are     *)
(* +inf and -inf, following the IEEE rules the arrays of the program obey. *)
(* PRNG keys are paths in the split tree: PRNGKey(s) = <<s>> and a split   *)
(* of k yields the children Append(k, j).                                  *)
(***************************************************************************)
EXTENDS Integers, Sequences, FiniteSets, TLC

\* ------------------------------------------------------------ bounds
MaxNsample == 2
MaxHsample == 1
MaxNdiffuse == 3

\* ------------------------------------------------- extended rationals
Abs(x) == IF x < 0 THEN -x ELSE x
Sgn(x) == IF x < 0 THEN -1 ELSE IF x > 0 THEN 1 ELSE 0

RECURSIVE Gcd(_, _)
Gcd(a, b) == IF b = 0 THEN a ELSE Gcd(b, a % b)

Norm(q) ==
    IF q[2] = 0 THEN <<Sgn(q[1]), 0>>
    ELSE LET g == Gcd(Abs(q[1]), Abs(q[2]))
             s == Sgn(q[2])
         IN  <<(s * q[1]) \div g, (s * q[2]) \div g>>

Q(n, d) == Norm(<<n, d>>)
Zero == <<0, 1>>
One == <<1, 1>>
NaN == <<0, 0>>
IsNaN(x) == x = NaN
IsFinite(x) == x[2] > 0

\* products and sums cancel common factors before they multiply
Mul(x, y) ==
    IF x[2] = 0 \/ y[2] = 0 THEN <<Sgn(x[1] * y[1]), 0>>
    ELSE LET g1 == Gcd(Abs(x[1]), y[2])
             g2 == Gcd(Abs(y[1]), x[2])
         IN  <<(x[1] \div g1) * (y[1] \div g2), (x[2] \div g2) * (y[2] \div g1)>>
Add(x, y) ==
    IF x[2] = 0 /\ y[2] = 0 THEN (IF x = y THEN x ELSE NaN)
    ELSE IF x[2] = 0 THEN x
    ELSE IF y[2] = 0 THEN y
    ELSE LET g == Gcd(x[2], y[2])
         IN  Norm(<<x[1] * (y[2] \div g) + y[1] * (x[2] \div g), (x[2] \div g) * y[2]>>)
Neg(x) == <<-x[1], x[2]>>
Sub(x, y) == Add(x, Neg(y))
\* x / 0 is NaN for x = 0 or NaN, and an infinity otherwise
Div(x, y) ==
    IF y[1] = 0 /\ y[2] > 0 THEN <<(IF x[2] = 0 THEN x[1] ELSE Sgn(x[1])), 0>>
    ELSE Mul(x, <<Sgn(y[1]) * y[2], Abs(y[1])>>)
\* x < y; every comparison with NaN is false
Less(x, y) == ~IsNaN(x) /\ ~IsNaN(y) /\ x # y /\ Add(x, <<-y[1], y[2]>>)[1] < 0
Leq(x, y) == ~IsNaN(x) /\ ~IsNaN(y) /\ (x = y \/ Less(x, y))

\* the least k >= lo with k * k * d >= n
RECURSIVE CeilRoot(_, _, _)
CeilRoot(n, d, lo) == IF lo * lo * d >= n THEN lo ELSE CeilRoot(n, d, lo + 1)
\* jnp.sqrt: exact on the squares of rationals, otherwise rounded up to the next
\* quarter, as a floating-point square root is rounded to its grid
Sqrt(x) ==
    IF x[2] = 0 THEN (IF x = <<1, 0>> THEN x ELSE NaN)
    ELSE IF x[1] < 0 THEN NaN
    ELSE LET p == CeilRoot(x[1], 1, 0)
             q == CeilRoot(x[2], 1, 0)
         IN  IF p * p = x[1] /\ q * q = x[2] THEN <<p, q>>
             ELSE Norm(<<CeilRoot(16 * x[1], x[2], 0), 4>>)

\* jnp.clip(x, lo, hi) = minimum(maximum(x, lo), hi); NaN propagates
Clip(x, lo, hi) ==
    IF IsNaN(x) THEN x
    ELSE IF Less(x, lo) THEN lo
    ELSE IF Less(hi, x) THEN hi
    ELSE x

RECURSIVE SumSeq(_)
SumSeq(s) == IF s = <<>> THEN Zero ELSE Add(Head(s), SumSeq(Tail(s)))
\* x.mean(): the mean of an empty array is 0/0 = NaN
Mean(s) == Div(SumSeq(s), <<Len(s), 1>>)
Square(x) == Mul(x, x)
\* x.std(): population standard deviation (ddof = 0)
StdAbout(s, m) == Sqrt(Mean([k \in 1..Len(s) |-> Square(Sub(s[k], m))]))
Std(s) == StdAbout(s, Mean(s))

\* ------------------------------------------------------ arrays
\* a trajectory is a [Hsample, Nu] array: a sequence of Hsample rows of Nu numbers
Zeros(H, Nu) == [h \in 1..H |-> [u \in 1..Nu |-> Zero]]
Map1(f(_), Y) == [h \in 1..Len(Y) |-> [u \in 1..Len(Y[h]) |-> f(Y[h][u])]]
Map2(f(_, _), X, Y) ==
    [h \in 1..Len(X) |-> [u \in 1..Len(X[h]) |-> f(X[h][u], Y[h][u])]]
Scale(c, Y) == LET f(x) == Mul(c, x) IN Map1(f, Y)
Entries(Y) == {Y[h][u] : h \in 1..Len(Y), u \in 1..(IF Len(Y) = 0 THEN 0 ELSE Len(Y[1]))}
IsShape(Y, H, Nu) == Len(Y) = H /\ \A h \in 1..H : Len(Y[h]) = Nu
\* zero-based element t of an array; a negative t counts from the end
At(arr, t) == IF t >= 0 THEN arr[t + 1] ELSE arr[Len(arr) + t + 1]
RECURSIVE CountDown(_, _)
CountDown(start, stop) ==
    IF start <= stop THEN <<>> ELSE <<start>> \o CountDown(start - 1, stop)
\* a loop that runs on to index 0
RangeDownToZero(start, stop) == CountDown(start, stop - 1)
\* range(start, stop, -1)
RangeDown(start, stop) == CountDown(start, stop)

\* ------------------------------------------------------ PRNG keys
PRNGKey(seed) == <<seed>>
\* jax.random.split(key): two fresh keys
Split(key) == <<Append(key, 0), Append(key, 1)>>
\* a reset key that is the carried key
ResetKeyCarried(ks) == ks[1]
\* rng, rng_reset = jax.random.split(rng): the key kept for the reset
ResetKey(ks) == ks[2]
\* the draws of jax.random.normal (in units the schedule scales)
NoiseVals == {Q(-3, 1), Q(1, 2)}

\* ------------------------------------------------------ environment adapter
EnvNames == {"ant", "car2d"}
ActionSize(env_name) == 1
HasXref(env_name) == env_name = "car2d"
\* reset(rng) -> State
EnvReset(env_name, key) == [env |-> env_name, key |-> key, t |-> 0, hits |-> 0, reward |-> Zero]
\* reward of one action: 1 inside the target zone u >= 1/4 in every component
StepReward(u) ==
    IF \E k \in 1..Len(u) : IsNaN(u[k]) THEN NaN
    ELSE IF \A k \in 1..Len(u) : Leq(Q(1, 4), u[k]) THEN One ELSE Zero
\* step(state, action) -> State
EnvStep(state, u) ==
    [state EXCEPT !.t = @ + 1,
                  !.hits = @ + (IF StepReward(u) = One THEN 1 ELSE 0),
                  !.reward = StepReward(u)]
RECURSIVE Scan(_, _)
\* the states visited by stepping through the action rows us
Scan(state, us) ==
    IF us = <<>> THEN <<>>
    ELSE LET nxt == EnvStep(state, Head(us)) IN <<nxt>> \o Scan(nxt, Tail(us))
\* mbd.utils.rollout_us(step_env, state, us) -> (rews, pipeline_states)
RolloutUs(state, us) ==
    LET qs == Scan(state, us)
    IN  [rews |-> [h \in 1..Len(qs) |-> qs[h].reward], qs |-> qs]
\* env.eval_xref_logpd(qs), env.rew_xref: log-density of a rollout under the reference
EvalXrefLogpd(qs) == IF qs = <<>> THEN Zero ELSE Q(qs[Len(qs)].hits - Len(qs), 1)
RewXref == One

\* ------------------------------------------------------ noise schedule
\* jnp.linspace(beta0, betaT, n)
Linspace(b0, bT, n) ==
    [k \in 1..n |-> IF n = 1 THEN b0
                    ELSE Add(b0, Mul(Sub(bT, b0), Q(k - 1, n - 1)))]
RECURSIVE Prod(_)
Prod(s) == IF s = <<>> THEN One ELSE Mul(Head(s), Prod(Tail(s)))
\* jnp.cumprod(a)
CumProd(s) == [k \in 1..Len(s) |-> Prod(SubSeq(s, 1, k))]
\* jnp.roll(a, 1)
Roll1(a) == [k \in 1..Len(a) |-> IF k = 1 THEN a[Len(a)] ELSE a[k - 1]]
\* sigmas, Sigmas_cond and sigmas_cond from alphas and alphas_bar
ScheduleFrom(betas, alphas, alphas_bar, rolled) ==
    [betas |-> betas, alphas |-> alphas, alphas_bar |-> alphas_bar,
     sigmas |-> [k \in 1..Len(betas) |-> Sqrt(Sub(One, alphas_bar[k]))],
     sigmas_cond |->
        [k \in 1..Len(betas) |->
            IF k = 1 THEN Zero
            ELSE Sqrt(Div(Mul(Sub(One, alphas[k]), Sub(One, Sqrt(rolled[k]))),
                          Sub(One, alphas_bar[k])))]]
Alphas(betas) == [k \in 1..Len(betas) |-> Sub(One, betas[k])]
ScheduleOf(betas, alphas_bar) ==
    ScheduleFrom(betas, Alphas(betas), alphas_bar, Roll1(alphas_bar))
Schedule(beta0, betaT, Ndiffuse) ==
    ScheduleOf(Linspace(beta0, betaT, Ndiffuse),
               CumProd(Alphas(Linspace(beta0, betaT, Ndiffuse))))

\* ------------------------------------------------------ configuration
\* the recommended per-environment parameters of run_diffusion
temp_recommend ==
    [ant |-> Q(1, 10), halfcheetah |-> Q(2, 5), hopper |-> Q(1, 10),
     humanoidstandup |-> Q(1, 10), humanoidrun |-> Q(1, 10),
     walker2d |-> Q(1, 10), pushT |-> Q(1, 5)]
Ndiffuse_recommend == [pushT |-> 200, humanoidrun |-> 300]
Nsample_recommend == [humanoidrun |-> 8192]
Hsample_recommend == [pushT |-> 40]
\* dict.get(key, default)
Get(map, key, default) == IF key \in DOMAIN map THEN map[key] ELSE default
Override(a) ==
    IF a.disable_recommended_params THEN a
    ELSE [a EXCEPT !.temp_sample = Get(temp_recommend, a.env_name, @),
                   !.Ndiffuse = Get(Ndiffuse_recommend, a.env_name, @),
                   !.Nsample = Get(Nsample_recommend, a.env_name, @),
                   !.Hsample = Get(Hsample_recommend, a.env_name, @)]

\* ------------------------------------------------------ reverse_once (simple variant)
ClipAction(x) == Clip(x, Q(-1, 1), One)
\* candidates drawn around the nominal noisy trajectory
SampleCentreNoisy(Ybar_i, Yi) == Yi
\* the centre the candidates are drawn around
SampleCentre(Ybar_i, Yi) == Ybar_i
\* Y0s = clip(eps_u * sigmas[i] + centre, -1, 1)
SampleY0s(eps_u, sigma, centre) ==
    [n \in 1..Len(eps_u) |->
        LET f(e, c) == ClipAction(Add(Mul(e, sigma), c))
        IN  Map2(f, eps_u[n], centre)]
\* rew_std = jnp.where(rew_std < 1e-4, 1.0, rew_std)
GuardStd(rew_std) == IF Less(rew_std, Q(1, 10000)) THEN One ELSE rew_std
\* logp0 = (rews - rew_mean) / rew_std / temp_sample
RewardLogp(rews, rew_mean, rew_std, temp) ==
    [n \in 1..Len(rews) |-> Div(Div(Sub(rews[n], rew_mean), rew_std), temp)]
\* jnp.maximum(a, b); NaN propagates
Max2(a, b) == IF IsNaN(a) \/ IsNaN(b) THEN NaN ELSE IF Less(a, b) THEN b ELSE a
RECURSIVE MaxSeq(_)
\* x.max() of a non-empty array
MaxSeq(s) == IF Len(s) = 1 THEN s[1] ELSE Max2(s[1], MaxSeq(Tail(s)))
\* (x - x.mean()) / x.std() / temp, with nothing guarding the division
Standardise(x, m, sd, temp) == [n \in 1..Len(x) |-> Div(Div(Sub(x[n], m), sd), temp)]
\* logp0 = jnp.where(logpdemo > logp0, logpdemo, logp0), standardised again
DemoMix(logp0, logpdemo) ==
    [n \in 1..Len(logp0) |->
        IF Less(logp0[n], logpdemo[n]) THEN logpdemo[n] ELSE logp0[n]]
DemoScore(raw, top, rew_mean, rew_std, temp) ==
    [n \in 1..Len(raw) |->
        Div(Div(Sub(Add(Sub(raw[n], top), RewXref), rew_mean), rew_std), temp)]
DemoRestd(mixed, temp) == Standardise(mixed, Mean(mixed), Std(mixed), temp)
DemoXref(logp0, raw, rew_mean, rew_std, temp) ==
    DemoRestd(DemoMix(logp0, DemoScore(raw, MaxSeq(raw), rew_mean, rew_std, temp)), temp)
\* the demo branch of reverse_once
DemoLogp(logp0, qss, rew_mean, rew_std, temp) ==
    DemoXref(logp0, [n \in 1..Len(qss) |-> EvalXrefLogpd(qss[n])], rew_mean, rew_std, temp)
\* exp is not rational: exp(logp[n] - c) is some positive mass, equal for equal
\* arguments and larger for larger ones
Masses(logp) ==
    IF \E n \in 1..Len(logp) : ~IsFinite(logp[n])
    THEN {[n \in 1..Len(logp) |-> 1]}
    ELSE {m \in [1..Len(logp) -> 1..Len(logp)] :
            \A j, k \in 1..Len(logp) :
                /\ logp[j] = logp[k] => m[j] = m[k]
                /\ Less(logp[j], logp[k]) => m[j] < m[k]}
RECURSIVE SumInt(_)
SumInt(s) == IF s = <<>> THEN 0 ELSE Head(s) + SumInt(Tail(s))
\* jax.nn.softmax(logp): masses over their sum; a non-finite entry makes all NaN
Softmax(logp, m) ==
    IF \E n \in 1..Len(logp) : ~IsFinite(logp[n])
    THEN [n \in 1..Len(logp) |-> NaN]
    ELSE [n \in 1..Len(logp) |-> Q(m[n], SumInt(m))]
\* jnp.einsum("n,nij->ij", weights, Y0s)
WeightedMean(weights, Y0s, H, Nu) ==
    [h \in 1..H |-> [u \in 1..Nu |->
        SumSeq([n \in 1..Len(weights) |-> Mul(weights[n], Y0s[n][h][u])])]]
\* score, Yim1 and Ybar_im1 of one step
Ancestral(i, Yi, Ybar, sc) ==
    LET ab == At(sc.alphas_bar, i)
        score == Scale(Div(One, Sub(One, ab)),
                       Map2(Add, Scale(Q(-1, 1), Yi), Scale(Sqrt(ab), Ybar)))
        Yim1 == Scale(Div(One, Sqrt(At(sc.alphas, i))),
                      Map2(Add, Yi, Scale(Sub(One, ab), score)))
    IN  Scale(Div(One, Sqrt(At(sc.alphas_bar, i - 1))), Yim1)
\* the candidates of step i: drawn around the centre with spread sigmas[i]
StepY0s(i, Ybar_i, eps_u, sc) ==
    SampleY0s(eps_u, At(sc.sigmas, i),
              SampleCentre(Ybar_i, Scale(Sqrt(At(sc.alphas_bar, i)), Ybar_i)))
\* rews = rewss.mean(axis=-1) of the candidates rolled out from state
StepRews(Y0s, state) == [n \in 1..Len(Y0s) |-> Mean(RolloutUs(state, Y0s[n]).rews)]
\* the log-probabilities logp0 handed to the softmax
LogpFrom(rews, qss, rew_mean, rew_std, a) ==
    IF a.enable_demo
    THEN DemoLogp(RewardLogp(rews, rew_mean, rew_std, a.temp_sample), qss, rew_mean,
                  rew_std, a.temp_sample)
    ELSE RewardLogp(rews, rew_mean, rew_std, a.temp_sample)
StepLogp(Y0s, rews, state, a) ==
    LogpFrom(rews, [n \in 1..Len(Y0s) |-> RolloutUs(state, Y0s[n]).qs], Mean(rews),
             GuardStd(Std(rews)), a)
\* the values of one reverse_once((i, rng, Ybar_i)) call
StepRecord(i, Ybar_i, Yi, eps_u, Y0s, rews, logp0, weights, Ybar, sc) ==
    [i |-> i, Ybar_i |-> Ybar_i, Yi |-> Yi, eps_u |-> eps_u, Y0s |-> Y0s,
     rews |-> rews, logp0 |-> logp0, weights |-> weights, Ybar |-> Ybar,
     Ybar_im1 |-> Ancestral(i, Yi, Ybar, sc), rew |-> Mean(rews)]
StepUpdate(i, Ybar_i, eps_u, Y0s, rews, logp0, weights, a, sc) ==
    StepRecord(i, Ybar_i, Scale(Sqrt(At(sc.alphas_bar, i)), Ybar_i), eps_u, Y0s, rews,
               logp0, weights,
               WeightedMean(weights, Y0s, a.Hsample, ActionSize(a.env_name)), sc)
\* reverse_once for the noise eps_u, what the rollouts of Y0s returned, and the
\* softmax masses m
ReverseOnce(i, Ybar_i, eps_u, Y0s, rews, logp0, m, a, sc) ==
    StepUpdate(i, Ybar_i, eps_u, Y0s, rews, logp0, Softmax(logp0, m), a, sc)

\* ------------------------------------------------------ reverse_once (GMM variant)
\* jax.random.split(key, (H, Nu)): one key per entry of a row-major [H, Nu] grid
SplitShape(key, H, Nu) == [h \in 1..H |-> [u \in 1..Nu |-> Append(key, (h - 1) * Nu + u - 1)]]
\* sample_GMM under the two vmaps, moved to (Nsample, Hsample, Nu):
\* samples = means[components] + sigma * normal
SampleGMM(means, comps, noise, sigma, N, H, Nu) ==
    [n \in 1..N |-> [h \in 1..H |-> [u \in 1..Nu |->
        Add(means[comps[h][u][n]][h][u], Mul(sigma, noise[h][u][n]))]]]
\* get_logp_GMM: the logsumexp of log-weights and normal log-densities is not
\* rational; it is some finite value dens when its arguments are finite, else NaN
GetLogpGMM(means_hu, log_weights, x, sigma, dens) ==
    IF \/ \E k \in 1..Len(means_hu) : ~IsFinite(means_hu[k])
       \/ \E k \in 1..Len(log_weights) : ~IsFinite(log_weights[k])
       \/ ~IsFinite(x) \/ ~IsFinite(sigma)
    THEN NaN
    ELSE dens
LogDensityVals == {Zero, Q(-1, 1)}
\* get_logp_GMM_vvvmap(...).mean(axis=[1, 2])
GmmLogq(means, log_weights, Y0s, sigma, dens, H, Nu) ==
    [n \in 1..Len(Y0s) |->
        Mean([j \in 1..(H * Nu) |->
            LET h == ((j - 1) \div Nu) + 1
                u == ((j - 1) % Nu) + 1
            IN  GetLogpGMM([k \in 1..Len(means) |-> means[k][h][u]], log_weights,
                           Y0s[n][h][u], sigma, dens[n])])]
\* eps_Yt = clip((Y0s * sqrt(alphas_bar[t]) - Yts) / sigmas[t], -2, 2) and
\* logp_Yt_Y0s = -0.5 * mean(eps_Yt ** 2) over the trajectory
LogpYtY0(Y0, Yt, sqab, sigma, H, Nu) ==
    Mul(Q(-1, 2),
        Mean([j \in 1..(H * Nu) |->
            LET h == ((j - 1) \div Nu) + 1
                u == ((j - 1) % Nu) + 1
            IN  Square(Clip(Div(Sub(Mul(Y0[h][u], sqab), Yt[h][u]), sigma),
                            Q(-2, 1), Q(2, 1)))]))
\* rews_normed = (rews - rews.mean()) / rews.std(), logp_Y0s = rews_normed / temp
GmmRewardLogp(rews, temp) == Standardise(rews, Mean(rews), Std(rews), temp)
\* x - jnp.max(x) over a list of numbers
SubMax(x, top) == [n \in 1..Len(x) |-> Sub(x[n], top)]
Flatten2(xs) == [j \in 1..(Len(xs) * (IF xs = <<>> THEN 0 ELSE Len(xs[1]))) |->
                    xs[((j - 1) \div Len(xs[1])) + 1][((j - 1) % Len(xs[1])) + 1]]
\* logp_Y0s_bar = logp_Y0s + logp_Yt_Y0s - logq_Y0s, less its maximum
LogpBarRaw(logp_Y0s, logp_Yt_Y0s, logq_Y0s) ==
    [e \in 1..Len(logp_Yt_Y0s) |-> [n \in 1..Len(logp_Y0s) |->
        Sub(Add(logp_Y0s[n], logp_Yt_Y0s[e][n]), logq_Y0s[n])]]
LogpBarShift(raw, top) == [e \in 1..Len(raw) |-> SubMax(raw[e], top)]
LogpBar(logp_Y0s, logp_Yt_Y0s, logq_Y0s) ==
    LogpBarShift(LogpBarRaw(logp_Y0s, logp_Yt_Y0s, logq_Y0s),
                 MaxSeq(Flatten2(LogpBarRaw(logp_Y0s, logp_Yt_Y0s, logq_Y0s))))
\* logq_Y0s_new = logp_Y0s - logq_Y0s, less its maximum
LogqRaw(logp_Y0s, logq_Y0s) == [n \in 1..Len(logp_Y0s) |-> Sub(logp_Y0s[n], logq_Y0s[n])]
LogqNew(logp_Y0s, logq_Y0s) ==
    SubMax(LogqRaw(logp_Y0s, logq_Y0s), MaxSeq(LogqRaw(logp_Y0s, logq_Y0s)))
\* scores and Ytsm1 of one chain
GmmAncestral(Yt, Y0_bar, eps, ab, beta) ==
    LET f(y, b) == Mul(Div(ab, Sub(One, ab)), Sub(b, Div(y, Sqrt(ab))))
        g(y, sco) == Mul(Div(One, Sqrt(Sub(One, beta))),
                         Add(y, Mul(Mul(Q(1, 2), beta), sco)))
        k(y, e) == Add(y, Mul(Sqrt(beta), e))
    IN  Map2(k, Map2(g, Yt, Map2(f, Yt, Y0_bar)), eps)

\* ------------------------------------------------------ state
VARIABLES
    variant,     \* "simple" (mbd_planner.py) or "gmm" (mc_brax_gmm.py)
    args,        \* the configuration
    pc,          \* position in the program
    err,         \* the exception that ended the run, "" when none
    rng,         \* the carried PRNG key
    rng_reset,   \* the key the environment was reset with
    state_init,  \* <<state>> once the environment is reset, <<>> before
    sched,       \* <<schedule>> once built
    pbar,        \* the diffusion indices the loop has still to run
    Yi,          \* the current trajectory estimate
    Ybars,       \* the estimates collected by reverse
    step,        \* <<record>> of the most recent reverse_once call
    calls,       \* the (index, estimate in, estimate out) of every reverse_once call
    keyLog,      \* every use of a PRNG key: <<key, what used it>>
    rollouts,    \* the start state of every rollout: <<site, state>>
    resets,      \* number of environment resets
    saved,       \* <<array>> once mu_0ts.npy is written
    rendered,    \* <<trajectory>> once the rollout is rendered
    result,      \* <<rew_final>> once run_diffusion returns
    carry_once,  \* GMM: the carry (t, rng, mean_Y0s, logq_Y0s, Yts) of reverse
    Y0s_hat,     \* GMM: the candidate population
    logs_Y0_hat, \* GMM: its log-weights
    Yts          \* GMM: the noisy trajectories of the Nexp chains

gmmVars == <<carry_once, Y0s_hat, logs_Y0_hat, Yts>>
simpleVars == <<Yi, Ybars, calls, saved, rendered, result>>
vars == <<variant, args, pc, err, rng, rng_reset, state_init, sched, pbar, step,
          keyLog, rollouts, resets, simpleVars, gmmVars>>

\* schedules whose alphas are squares of rationals, so that every square root the
\* score and ancestral conversion takes is exact
BetaPairs == {<<Q(3, 4), Q(3, 4)>>, <<Q(3, 4), Q(8, 9)>>}
ExactSchedule(b, n) ==
    \A k \in 1..n :
        LET al == Sub(One, Linspace(b[1], b[2], n)[k])
        IN  Mul(Sqrt(al), Sqrt(al)) = al
\* the noise arrays jax.random.normal returns for shape (N, H, Nu): one draw per
\* candidate, repeated along the horizon
Noise(N, H, Nu) ==
    {[n \in 1..N |-> [h \in 1..H |-> [u \in 1..Nu |-> e[n]]]] : e \in [1..N -> NoiseVals]}

SimpleArgs ==
    {a \in [seed : {0}, disable_recommended_params : {FALSE}, not_render : BOOLEAN,
            env_name : EnvNames, Nsample : 0..MaxNsample, Hsample : 0..MaxHsample,
            Ndiffuse : 1..MaxNdiffuse, temp_sample : {Q(1, 2)}, betas : BetaPairs,
            enable_demo : BOOLEAN] :
        /\ ExactSchedule(a.betas, a.Ndiffuse)
        /\ a.enable_demo => HasXref(a.env_name)}

\* the constants of the GMM script (Nsample 4096, Hsample 20, Ndiffuse 100, Nexp 16,
\* temp_sample 0.5 for env_name "point"), scaled down
GmmArgs ==
    [env_name : {"point"}, Nsample : {1, 2}, Hsample : {1}, Ndiffuse : {1, 2},
     Nexp : {1}, temp_sample : {Q(1, 2)}, betas : {<<Q(3, 4), Q(3, 4)>>}]

Unset ==
    /\ pc = "start"
    /\ err = ""
    /\ rng = <<>>
    /\ rng_reset = <<>>
    /\ state_init = <<>>
    /\ sched = <<>>
    /\ pbar = <<>>
    /\ Yi = <<>>
    /\ Ybars = <<>>
    /\ step = <<>>
    /\ calls = <<>>
    /\ keyLog = <<>>
    /\ rollouts = {}
    /\ resets = 0
    /\ saved = <<>>
    /\ rendered = <<>>
    /\ result = <<>>
    /\ carry_once = <<>>
    /\ Y0s_hat = <<>>
    /\ logs_Y0_hat = <<>>
    /\ Yts = <<>>
InitSimple == variant = "simple" /\ args \in SimpleArgs /\ Unset
InitGmm == variant = "gmm" /\ args \in GmmArgs /\ Unset
Init == InitSimple \/ InitGmm

\* a history that starts with the initial estimate
YbarsWithYN(YN) == <<YN>>
\* Ybars = [] on entry of reverse(YN, rng)
InitialYbars(YN) == <<>>

\* ------------------------------------------------------ run_diffusion
\* lines 39-79: seed the key, apply the recommended parameters, reset the environment
Setup ==
    /\ variant = "simple" /\ pc = "start"
    /\ LET a == Override(args)
           ks == Split(PRNGKey(a.seed))
       IN  /\ args' = a
           /\ rng' = ks[1]
           /\ rng_reset' = ResetKey(ks)
           /\ state_init' = <<EnvReset(a.env_name, ResetKey(ks))>>
           /\ keyLog' = keyLog \o <<<<PRNGKey(a.seed), "split">>,
                                    <<ResetKey(ks), "reset">>>>
    /\ resets' = resets + 1
    /\ pc' = "schedule"
    /\ UNCHANGED gmmVars
    /\ UNCHANGED <<variant, err, sched, pbar, Yi, Ybars, step, calls, rollouts,
                   saved, rendered, result>>

\* lines 83-94 and 153-154, 142-144: the schedule, YN, and the entry of reverse
BuildSchedule ==
    /\ variant = "simple" /\ pc = "schedule"
    /\ sched' = <<Schedule(args.betas[1], args.betas[2], args.Ndiffuse)>>
    /\ LET ks == Split(rng)
       IN  /\ rng' = ks[1]
           /\ keyLog' = Append(keyLog, <<rng, "split">>)
    /\ Yi' = Zeros(args.Hsample, ActionSize(args.env_name))
    /\ Ybars' = InitialYbars(Zeros(args.Hsample, ActionSize(args.env_name)))
    /\ pbar' = RangeDown(args.Ndiffuse - 1, 0)
    /\ pc' = "reverse"
    /\ UNCHANGED gmmVars
    /\ UNCHANGED <<variant, args, err, rng_reset, state_init, step, calls, rollouts,
                   resets, saved, rendered, result>>

\* lines 145-150 with reverse_once, lines 97-138: one pass of the loop of reverse
ReverseStep ==
    /\ variant = "simple" /\ pc = "reverse" /\ pbar # <<>>
    /\ LET i == Head(pbar)
           ks == Split(rng)
           Nu == ActionSize(args.env_name)
       IN  IF args.enable_demo /\ args.Nsample = 0
           THEN \* xref_logpds.max() of an empty array
                /\ pc' = "error" /\ err' = "ValueError"
                /\ UNCHANGED <<rng, keyLog, step, calls, Yi, Ybars, pbar, rollouts>>
           ELSE \E eps_u \in Noise(args.Nsample, args.Hsample, Nu) :
                \E Y0s \in {StepY0s(i, Yi, eps_u, sched[1])} :
                \E rews \in {StepRews(Y0s, state_init[1])} :
                \E logp0 \in {StepLogp(Y0s, rews, state_init[1], args)} :
                \E m \in Masses(logp0) :
                \E r \in {ReverseOnce(i, Yi, eps_u, Y0s, rews, logp0, m, args, sched[1])} :
                      /\ step' = <<r>>
                      /\ calls' = Append(calls, [i |-> i, est_in |-> Yi,
                                                 est_out |-> r.Ybar_im1])
                      /\ rng' = ks[1]
                      /\ keyLog' = keyLog \o <<<<rng, "split">>, <<ks[2], "normal">>>>
                      /\ rollouts' = rollouts \cup
                             {<<"reverse_once", state_init[1]>> : n \in 1..args.Nsample}
                      /\ Yi' = r.Ybar_im1
                      /\ Ybars' = Append(Ybars, r.Ybar_im1)
                      /\ pbar' = Tail(pbar)
                      /\ UNCHANGED <<pc, err>>
    /\ UNCHANGED gmmVars
    /\ UNCHANGED <<variant, args, rng_reset, state_init, sched, resets, saved,
                   rendered, result>>

\* line 151: return jnp.array(Ybars)
ReverseReturn ==
    /\ variant = "simple" /\ pc = "reverse" /\ pbar = <<>>
    /\ pc' = "save"
    /\ UNCHANGED gmmVars
    /\ UNCHANGED <<variant, args, err, rng, rng_reset, state_init, sched, pbar, Yi,
                   Ybars, step, calls, keyLog, rollouts, resets, saved, rendered,
                   result>>

\* lines 156-182: save mu_0ts.npy and render the last slice
Save ==
    /\ variant = "simple" /\ pc = "save"
    /\ IF args.not_render
       THEN /\ pc' = "final"
            /\ UNCHANGED <<err, saved, rendered, rollouts>>
       ELSE /\ saved' = <<Ybars>>
            /\ IF Ybars = <<>>
               THEN \* Yi[-1] (Yi.shape[1] for car2d) of an empty array
                    /\ pc' = "error" /\ err' = "IndexError"
                    /\ UNCHANGED <<rendered, rollouts>>
               ELSE /\ rendered' = <<At(Ybars, -1)>>
                    /\ rollouts' = rollouts \cup {<<"render", state_init[1]>>}
                    /\ pc' = "final"
                    /\ UNCHANGED err
    /\ UNCHANGED gmmVars
    /\ UNCHANGED <<variant, args, rng, rng_reset, state_init, sched, pbar, Yi, Ybars,
                   step, calls, keyLog, resets, result>>

\* lines 184-187: the reward of the final estimate
Final ==
    /\ variant = "simple" /\ pc = "final"
    /\ IF Ybars = <<>>
       THEN /\ pc' = "error" /\ err' = "IndexError"
            /\ UNCHANGED <<rollouts, result>>
       ELSE /\ rollouts' = rollouts \cup {<<"final", state_init[1]>>}
            /\ result' = <<Mean(RolloutUs(state_init[1], At(Ybars, -1)).rews)>>
            /\ pc' = "done"
            /\ UNCHANGED err
    /\ UNCHANGED gmmVars
    /\ UNCHANGED <<variant, args, rng, rng_reset, state_init, sched, pbar, Yi, Ybars,
                   step, calls, keyLog, resets, saved, rendered>>

\* ------------------------------------------------------ mc_brax_gmm.py
\* lines 60-63: reset the environment
GmmSetup ==
    /\ variant = "gmm" /\ pc = "start"
    /\ LET ks == Split(PRNGKey(0))
       IN  /\ rng' = ks[1]
           /\ rng_reset' = ResetKey(ks)
           /\ state_init' = <<EnvReset(args.env_name, ResetKey(ks))>>
           /\ keyLog' = keyLog \o <<<<PRNGKey(0), "split">>, <<ResetKey(ks), "reset">>>>
    /\ resets' = resets + 1
    /\ pc' = "schedule"
    /\ UNCHANGED <<variant, args, err, sched, pbar, step, rollouts, simpleVars, gmmVars>>

\* lines 80-93: the schedule, the initial population and the initial chains
GmmInit ==
    /\ variant = "gmm" /\ pc = "schedule"
    /\ sched' = <<Schedule(args.betas[1], args.betas[2], args.Ndiffuse)>>
    /\ LET k1 == Split(rng)
           k2 == Split(k1[1])
           Nu == ActionSize(args.env_name)
       IN  /\ \E y0 \in Noise(args.Nsample, args.Hsample, Nu) : Y0s_hat' = y0
           /\ \E yt \in Noise(args.Nexp, args.Hsample, Nu) : Yts' = yt
           /\ rng' = k2[1]
           /\ keyLog' = keyLog \o <<<<rng, "split">>, <<k1[2], "normal">>,
                                    <<k1[1], "split">>, <<k2[2], "normal">>>>
    /\ logs_Y0_hat' = [n \in 1..args.Nsample |-> Zero]
    /\ pc' = "enter"
    /\ UNCHANGED <<variant, args, err, rng_reset, state_init, pbar, step, rollouts,
                   resets, simpleVars, carry_once>>

\* lines 243-244 and 220-226: enter reverse
GmmReverseEnter ==
    /\ variant = "gmm" /\ pc = "enter"
    /\ LET ks == Split(rng)
       IN  /\ rng' = ks[1]
           /\ carry_once' = <<args.Ndiffuse - 1, ks[2], Y0s_hat, logs_Y0_hat, Yts>>
           /\ keyLog' = Append(keyLog, <<rng, "split">>)
    /\ pbar' = [k \in 1..args.Ndiffuse |-> k - 1]
    /\ pc' = "reverse"
    /\ UNCHANGED <<variant, args, err, rng_reset, state_init, sched, step, rollouts,
                   resets, simpleVars, Y0s_hat, logs_Y0_hat, Yts>>

\* the uses of the per-entry keys by sample_GMM: lines 97 and 98 draw with one key
SampleGMMKeyUses(keys, H, Nu) ==
    [j \in 1..(2 * H * Nu) |->
        <<keys[((j - 1) \div (2 * Nu)) + 1][(((j - 1) \div 2) % Nu) + 1],
          IF j % 2 = 1 THEN "categorical" ELSE "normal">>]

\* lines 227-234 with reverse_once, lines 154-215: one pass of the loop of reverse
GmmReverseStep ==
    /\ variant = "gmm" /\ pc = "reverse" /\ pbar # <<>>
    /\ LET t == carry_once[1]
           mean_Y0s == carry_once[3]
           logq_in == carry_once[4]
           yts == carry_once[5]
           sc == sched[1]
           N == args.Nsample
           H == args.Hsample
           Nu == ActionSize(args.env_name)
           k1 == Split(carry_once[2])
           keys == SplitShape(k1[2], H, Nu)
           k2 == Split(k1[1])
       IN  \E comps \in [1..H -> [1..Nu -> [1..N -> 1..N]]] :
           \E noise \in [1..H -> [1..Nu -> [1..N -> NoiseVals]]] :
           \E dens \in [1..N -> LogDensityVals] :
           \E eps_Ytm1 \in Noise(args.Nexp, H, Nu) :
           \E sigma_Y0 \in {Div(At(sc.sigmas, t), Sqrt(<<N, 1>>))} :
           \E Y0s \in {SampleGMM(mean_Y0s, comps, noise, sigma_Y0, N, H, Nu)} :
           \E logq_Y0s \in {GmmLogq(mean_Y0s, logq_in, Y0s, sigma_Y0, dens, H, Nu)} :
           \E logp_Yt_Y0s \in {[e \in 1..args.Nexp |-> [n \in 1..N |->
                  LogpYtY0(Y0s[n], yts[e], Sqrt(At(sc.alphas_bar, t)),
                           At(sc.sigmas, t), H, Nu)]]} :
           \E rews \in {StepRews(Y0s, state_init[1])} :
           \E logp_Y0s \in {GmmRewardLogp(rews, args.temp_sample)} :
           \E logp_Y0s_bar \in {LogpBar(logp_Y0s, logp_Yt_Y0s, logq_Y0s)} :
           \E ms \in [1..args.Nexp -> UNION {Masses(logp_Y0s_bar[e]) : e \in 1..args.Nexp}] :
           \E weights \in {[e \in 1..args.Nexp |-> Softmax(logp_Y0s_bar[e], ms[e])]} :
           \E Y0s_bar \in {[e \in 1..args.Nexp |-> WeightedMean(weights[e], Y0s, H, Nu)]} :
           \E Ytsm1 \in {[e \in 1..args.Nexp |->
                  GmmAncestral(yts[e], Y0s_bar[e], eps_Ytm1[e], At(sc.alphas_bar, t),
                               At(sc.betas, t))]} :
             /\ \A e \in 1..args.Nexp : ms[e] \in Masses(logp_Y0s_bar[e])
             /\ step' = <<[t |-> t, Y0s |-> Y0s, rews |-> rews, logp0 |-> logp_Y0s,
                           weights |-> weights, Y0s_bar |-> Y0s_bar, rew |-> Mean(rews)]>>
             /\ carry_once' = <<t - 1, k2[1], Y0s, LogqNew(logp_Y0s, logq_Y0s), Ytsm1>>
             /\ Y0s_hat' = Y0s
             /\ keyLog' = keyLog \o <<<<carry_once[2], "split">>, <<k1[2], "split">>>>
                                 \o SampleGMMKeyUses(keys, H, Nu)
                                 \o <<<<k1[1], "split">>, <<k2[2], "normal">>>>
             /\ rollouts' = rollouts \cup
                    {<<site, state_init[1]>> :
                        site \in {"eval_us", "eval_us mean_Y0s", "eval_us Yts", "rollout_us"}}
    /\ pbar' = Tail(pbar)
    /\ UNCHANGED <<variant, args, pc, err, rng, rng_reset, state_init, sched, resets,
                   simpleVars, logs_Y0_hat, Yts>>

\* lines 236-240: unpack the carry, resample, return
GmmReverseFinish ==
    /\ variant = "gmm" /\ pc = "reverse" /\ pbar = <<>>
    /\ IF Len(carry_once) # 2
       THEN \* (tT, rng, Y0_hat, Y0), rew = carry_once: the carry has five items
            /\ pc' = "error" /\ err' = "ValueError"
            /\ UNCHANGED <<rng, keyLog, Y0s_hat>>
       ELSE LET ks == Split(carry_once[1][2])
            IN  /\ rng' = ks[1]
                /\ keyLog' = keyLog \o <<<<carry_once[1][2], "split">>,
                                         <<ks[2], "categorical">>>>
                /\ \E idx \in [1..args.Nsample -> 1..args.Nsample] :
                       Y0s_hat' = [n \in 1..args.Nsample |-> Y0s_hat[idx[n]]]
                \* return Y0s_hat, Y0s, rew: Y0s is no name of this scope
                /\ pc' = "error" /\ err' = "NameError"
    /\ UNCHANGED <<variant, args, rng_reset, state_init, sched, pbar, step, rollouts,
                   resets, simpleVars, carry_once, logs_Y0_hat, Yts>>

NextSimple ==
    \/ Setup
    \/ BuildSchedule
    \/ ReverseStep
    \/ ReverseReturn
    \/ Save
    \/ Final
NextGmm ==
    \/ GmmSetup
    \/ GmmInit
    \/ GmmReverseEnter
    \/ GmmReverseStep
    \/ GmmReverseFinish
Next == NextSimple \/ NextGmm

\* both programs
Spec == Init /\ [][Next]_vars
\* the GMM script alone
SpecGmm == InitGmm /\ [][NextGmm]_vars

\* ------------------------------------------------------ properties
Simple == variant = "simple"
Gmm == variant = "gmm"
InUnit(x) == Leq(Q(-1, 1), x) /\ Leq(x, One)
ActionDim == ActionSize(args.env_name)
\* the seed of the run
Seed == IF Simple THEN args.seed ELSE 0
LoopDone == pc \in {"save", "final", "done"}

\* C1: in the simple variant, for Ndiffuse >= 2, the k-th call of reverse_once runs
\* index Ndiffuse - k, which is never below 1, on the estimate the previous call
\* returned (the first on the all-zero YN); once the loop is left exactly
\* Ndiffuse - 1 calls were made and the last ran index 1.
C1_IndicesDescendToOne ==
    (Simple /\ args.Ndiffuse >= 2) =>
        /\ \A k \in 1..Len(calls) :
            /\ calls[k].i = args.Ndiffuse - k
            /\ calls[k].i >= 1
            /\ calls[k].est_in = IF k = 1 THEN Zeros(args.Hsample, ActionDim)
                                 ELSE calls[k - 1].est_out
        /\ Len(calls) <= args.Ndiffuse - 1
        /\ LoopDone => /\ Len(calls) = args.Ndiffuse - 1
                       /\ calls[Len(calls)].i = 1
C1_Witness ==
    /\ Simple /\ pc = "done" /\ args.Ndiffuse = 3 /\ Len(calls) = 2
    /\ calls[1].est_out # Zeros(args.Hsample, ActionDim)
    /\ calls[2].est_out # calls[1].est_out

\* C2: the environment is reset once, with the key split off the seed key, which
\* is used for nothing else; state_init stays the state of that reset, and every
\* rollout starts from it.
C2_StateInitFixed ==
    /\ resets <= 1
    /\ state_init # <<>> =>
        /\ resets = 1
        /\ rng_reset = Split(PRNGKey(Seed))[2]
        /\ state_init[1] = EnvReset(args.env_name, Split(PRNGKey(Seed))[2])
    /\ \A k \in 1..Len(keyLog) :
        keyLog[k][1] = Split(PRNGKey(Seed))[2] =>
            /\ keyLog[k][2] = "reset"
            /\ \A j \in 1..Len(keyLog) : keyLog[j][1] = keyLog[k][1] => j = k
    /\ \A r \in rollouts : state_init # <<>> /\ r[2] = state_init[1]
C2_Witness ==
    /\ Simple /\ pc = "done" /\ args.Ndiffuse = 3 /\ args.Nsample = 2
    /\ {r[1] : r \in rollouts} = {"reverse_once", "render", "final"}

\* C3: every entry of every candidate handed to the rollout evaluator is in [-1, 1].
C3_CandidatesInBounds ==
    step # <<>> =>
        \A n \in 1..Len(step[1].Y0s) : \A x \in Entries(step[1].Y0s[n]) : InUnit(x)

\* C4 as stated: the candidates of a step are the clipped Y_t + sigma[t] * noise.
C4_CentreIsNoisyTrajectory ==
    (Simple /\ step # <<>>) =>
        \A n \in 1..Len(step[1].Y0s) : \A h \in 1..Len(step[1].Yi) : \A u \in 1..ActionDim :
            step[1].Y0s[n][h][u] =
                ClipAction(Add(Mul(step[1].eps_u[n][h][u], At(sched[1].sigmas, step[1].i)),
                               step[1].Yi[h][u]))
\* C4 amended: the candidates of a step are the clipped Ybar_t + sigma[t] * noise,
\* where Ybar_t is the estimate the step received; Y_t = Ybar_t * sqrt(alpha_bar[t])
\* is formed beside it.
C4_CentreIsEstimate ==
    (Simple /\ step # <<>>) =>
        /\ step[1].Ybar_i = calls[Len(calls)].est_in
        /\ Len(step[1].Y0s) = args.Nsample
        /\ \A n \in 1..Len(step[1].Y0s) :
            /\ IsShape(step[1].Y0s[n], args.Hsample, ActionDim)
            /\ \A h \in 1..Len(step[1].Yi) : \A u \in 1..ActionDim :
                /\ step[1].Yi[h][u] =
                       Mul(step[1].Ybar_i[h][u], Sqrt(At(sched[1].alphas_bar, step[1].i)))
                /\ step[1].Y0s[n][h][u] =
                       ClipAction(Add(Mul(step[1].eps_u[n][h][u],
                                          At(sched[1].sigmas, step[1].i)),
                                      step[1].Ybar_i[h][u]))
C4_Witness ==
    /\ Simple /\ step # <<>> /\ args.Nsample = 2 /\ args.Hsample = 1
    /\ IsFinite(step[1].Ybar_i[1][1])
    /\ step[1].Yi # step[1].Ybar_i
    /\ \E n \in 1..2 :
        /\ Less(Q(-1, 1), step[1].Y0s[n][1][1]) /\ Less(step[1].Y0s[n][1][1], One)
        /\ step[1].Y0s[n][1][1] #
               ClipAction(Add(Mul(step[1].eps_u[n][1][1], At(sched[1].sigmas, step[1].i)),
                              step[1].Yi[1][1]))

\* a reward vector with zero variance
ZeroVariance(rews) ==
    /\ Len(rews) >= 1
    /\ \A n \in 1..Len(rews) : IsFinite(rews[n]) /\ rews[n] = rews[1]
\* the weight vectors the softmax calls of the step returned
WeightVectors == IF Simple THEN <<step[1].weights>> ELSE step[1].weights
\* C5: in a step whose rewards have zero variance every log-probability is finite
\* and every softmax weight is 1/Nsample.
C5_ZeroVarianceUniform ==
    (step # <<>> /\ ZeroVariance(step[1].rews)) =>
        /\ \A n \in 1..Len(step[1].logp0) : IsFinite(step[1].logp0[n])
        /\ \A e \in 1..Len(WeightVectors) : \A n \in 1..Len(WeightVectors[e]) :
            WeightVectors[e][n] = Q(1, args.Nsample)

\* a configuration with no horizon, no candidates or fewer than two diffusion steps
InvalidConfig(a) == a.Hsample <= 0 \/ a.Nsample <= 0 \/ a.Ndiffuse < 2

\* C6: with an invalid configuration run_diffusion stops before it resets the
\* environment, runs a step, saves or returns anything.
C6_InvalidConfigAborts ==
    (Simple /\ InvalidConfig(Override(args))) =>
        /\ resets = 0 /\ state_init = <<>>
        /\ calls = <<>> /\ rollouts = {}
        /\ saved = <<>> /\ result = <<>>

\* C7 as stated: the saved array holds Ndiffuse slices of shape [Hsample, ActionDim].
C7_SavedHasNdiffuseSlices ==
    (Simple /\ saved # <<>>) =>
        /\ Len(saved[1]) = args.Ndiffuse
        /\ \A k \in 1..Len(saved[1]) : IsShape(saved[1][k], args.Hsample, ActionDim)
\* C7 amended: the saved array holds Ndiffuse - 1 slices of shape [Hsample, ActionDim], the
\* estimate each reverse step returned, in order; its last slice is the final
\* estimate, which is the one rendered and the one whose reward is returned.
C7_SavedHasOneSlicePerStep ==
    (Simple /\ saved # <<>>) =>
        /\ Len(saved[1]) = args.Ndiffuse - 1
        /\ \A k \in 1..Len(saved[1]) :
            /\ IsShape(saved[1][k], args.Hsample, ActionDim)
            /\ saved[1][k] = calls[k].est_out
        /\ saved[1] # <<>> => At(saved[1], -1) = Yi
        /\ rendered # <<>> => rendered[1] = At(saved[1], -1)
        /\ result # <<>> =>
               result[1] = Mean(RolloutUs(state_init[1], At(saved[1], -1)).rews)
C7_Witness ==
    /\ Simple /\ pc = "done" /\ saved # <<>> /\ rendered # <<>>
    /\ args.Ndiffuse = 3 /\ Len(saved[1]) = 2 /\ args.Hsample = 1
    /\ saved[1][1] # saved[1][2]

\* C8: the driver reverse of the GMM variant ends without an error.
C8_GmmReverseReturns == Gmm => (pc # "error" /\ err = "")

\* C9: no PRNG key is used twice, be it by a split or by a draw.
C9_KeysUsedOnce ==
    \A j, k \in 1..Len(keyLog) : keyLog[j][1] = keyLog[k][1] => j = k

\* C10: in the simple variant the estimate a step returns is the softmax-weighted
\* mean of its clipped candidates, and every entry of the current estimate lies
\* in [-1, 1].
C10_EstimateIsWeightedMean ==
    Simple =>
        /\ step # <<>> =>
            /\ step[1].Ybar_im1 = step[1].Ybar
            /\ Yi = step[1].Ybar
        /\ \A x \in Entries(Yi) : InUnit(x)

====
